---- MODULE Spec2Model ----
(***************************************************************************)
(* Model of the Upwork job ingestion pipeline (src/upwork_apify_scraper.py):*)
(* scrape_jobs, filter_jobs, transform_job and the main that chains them,  *)
(* and of the worker pool of the outreach script                           *)
(* (src/upwork_proposal_generator.py): main, process_job and               *)
(* create_google_doc.                                                      *)
(*                                                                         *)
(* Python values are encoded as records with the same five fields:         *)
(*   t  the type tag: "none" (None / JSON null), "bool", "int", "nan"      *)
(*      (the float NaN), "str", "dict"                                      *)
(*   b  the value of a bool                                                 *)
(*   n  the value of an int                                                 *)
(*   s  the value of a str, a sequence of one-character strings             *)
(*   d  the value of a dict: the sequence of its items in insertion       *)
(*      order, each a pair <<key, value>> of the key's characters and the  *)
(*      encoded value; no key occurs twice                                 *)
(* A raw job record is the bare item sequence (the d of a dict).           *)
(* The characters of the model are those of Basic Latin and the Latin-1    *)
(* Supplement that are printable or whitespace.                            *)
(***************************************************************************)
EXTENDS Integers, Sequences, FiniteSets, TLC

V(t, b, n, s, d) == [t |-> t, b |-> b, n |-> n, s |-> s, d |-> d]
NoneV     == V("none", FALSE, 0, <<>>, <<>>)
BoolV(b)  == V("bool", b, 0, <<>>, <<>>)
IntV(n)  == V("int", FALSE, n, <<>>, <<>>)
NaNV     == V("nan", FALSE, 0, <<>>, <<>>)
StrV(s)  == V("str", FALSE, 0, s, <<>>)
DictV(d) == V("dict", FALSE, 0, <<>>, d)
EmptyMap == <<>>

(***************************************************************************)
(* Python primitives used by the two functions.                            *)
(***************************************************************************)

\* the keys the source looks up, by the literal it writes
FieldNames ==
    [isPaymentVerified |-> <<"i", "s", "P", "a", "y", "m", "e", "n", "t", "V", "e", "r", "i", "f", "i", "e", "d">>,
     client |-> <<"c", "l", "i", "e", "n", "t">>,
     paymentMethodVerified |-> <<"p", "a", "y", "m", "e", "n", "t", "M", "e", "t", "h", "o", "d", "V", "e", "r", "i", "f", "i", "e", "d">>,
     paymentVerificationStatus |-> <<"p", "a", "y", "m", "e", "n", "t", "V", "e", "r", "i", "f", "i", "c", "a", "t", "i", "o", "n", "S", "t", "a", "t", "u", "s">>,
     totalSpent |-> <<"t", "o", "t", "a", "l", "S", "p", "e", "n", "t">>,
     stats |-> <<"s", "t", "a", "t", "s">>,
     experienceLevel |-> <<"e", "x", "p", "e", "r", "i", "e", "n", "c", "e", "L", "e", "v", "e", "l">>,
     vendor |-> <<"v", "e", "n", "d", "o", "r">>,
     proposals |-> <<"p", "r", "o", "p", "o", "s", "a", "l", "s">>,
     proposalCount |-> <<"p", "r", "o", "p", "o", "s", "a", "l", "C", "o", "u", "n", "t">>,
     id |-> <<"i", "d">>,
     ciphertext |-> <<"c", "i", "p", "h", "e", "r", "t", "e", "x", "t">>,
     url |-> <<"u", "r", "l">>,
     externalLink |-> <<"e", "x", "t", "e", "r", "n", "a", "l", "L", "i", "n", "k">>,
     location |-> <<"l", "o", "c", "a", "t", "i", "o", "n">>,
     country |-> <<"c", "o", "u", "n", "t", "r", "y">>,
     countryCode |-> <<"c", "o", "u", "n", "t", "r", "y", "C", "o", "d", "e">>,
     totalHires |-> <<"t", "o", "t", "a", "l", "H", "i", "r", "e", "s">>,
     postedDate |-> <<"p", "o", "s", "t", "e", "d", "D", "a", "t", "e">>,
     date_created |-> <<"d", "a", "t", "e", "_", "c", "r", "e", "a", "t", "e", "d">>,
     createdAt |-> <<"c", "r", "e", "a", "t", "e", "d", "A", "t">>]

\* k in m, for a key literal of the source
HasKey(m, k) == \E i \in DOMAIN m : m[i][1] = FieldNames[k]

\* m[k]
Item(m, k) == m[CHOOSE i \in DOMAIN m : m[i][1] = FieldNames[k]][2]

\* dict.get(k): the value, None when the key is absent
Get(m, k) == IF HasKey(m, k) THEN Item(m, k) ELSE NoneV

\* dict.get(k, {}): the value, an empty dict when the key is absent
GetOrEmpty(m, k) == IF HasKey(m, k) THEN Item(m, k) ELSE DictV(EmptyMap)

\* only a dict has .get; None, numbers and strings raise AttributeError
HasGet(v) == v.t = "dict"

\* bool(v)
Truthy(v) ==
    CASE v.t = "none" -> FALSE
      [] v.t = "bool" -> v.b
      [] v.t = "int"  -> v.n # 0
      [] v.t = "nan"  -> TRUE
      [] v.t = "str"  -> v.s # <<>>
      [] v.t = "dict" -> v.d # <<>>

\* a or b
Or(a, b) == IF Truthy(a) THEN a ELSE b

DigitChars == <<"0", "1", "2", "3", "4", "5", "6", "7", "8", "9">>

\* the cased characters of the model's alphabet (Basic Latin and Latin-1
\* Supplement): the capitals and, at the same position, what str.lower()
\* makes of them
UpperChars == <<"A", "B", "C", "D", "E", "F", "G", "H", "I", "J", "K", "L", "M", "N", "O",
                "P", "Q", "R", "S", "T", "U", "V", "W", "X", "Y", "Z", "À", "Á", "Â", "Ã",
                "Ä", "Å", "Æ", "Ç", "È", "É", "Ê", "Ë", "Ì", "Í", "Î", "Ï", "Ð", "Ñ", "Ò",
                "Ó", "Ô", "Õ", "Ö", "Ø", "Ù", "Ú", "Û", "Ü", "Ý", "Þ">>
LowerChars == <<"a", "b", "c", "d", "e", "f", "g", "h", "i", "j", "k", "l", "m", "n", "o",
                "p", "q", "r", "s", "t", "u", "v", "w", "x", "y", "z", "à", "á", "â", "ã",
                "ä", "å", "æ", "ç", "è", "é", "ê", "ë", "ì", "í", "î", "ï", "ð", "ñ", "ò",
                "ó", "ô", "õ", "ö", "ø", "ù", "ú", "û", "ü", "ý", "þ">>

\* the characters of the alphabet that str.isspace() accepts: str.strip()
\* removes them
Whitespace == {"\t", "\n", "", "\f", "\r", "", "", "", "", " ", "", " "}

\* the characters float() skips around a number (the separators U+001C to
\* U+001F are not among them)
FloatSpace == {"\t", "\n", "", "\f", "\r", " ", "", " "}

\* the characters of the alphabet that repr() writes as an escape, each with
\* its escape
ReprEscapes == <<<<"\t", <<"\\", "t">>>>, <<"\n", <<"\\", "n">>>>,
               <<"", <<"\\", "x", "0", "b">>>>, <<"\f", <<"\\", "x", "0", "c">>>>,
               <<"\r", <<"\\", "r">>>>, <<"", <<"\\", "x", "1", "c">>>>,
               <<"", <<"\\", "x", "1", "d">>>>, <<"", <<"\\", "x", "1", "e">>>>,
               <<"", <<"\\", "x", "1", "f">>>>, <<"", <<"\\", "x", "8", "5">>>>,
               <<" ", <<"\\", "x", "a", "0">>>>>>

IsDigit(c) == \E i \in DOMAIN DigitChars : DigitChars[i] = c
DigitVal(c) == (CHOOSE i \in DOMAIN DigitChars : DigitChars[i] = c) - 1

LowerChar(c) ==
    IF \E i \in DOMAIN UpperChars : UpperChars[i] = c
    THEN LowerChars[CHOOSE i \in DOMAIN UpperChars : UpperChars[i] = c]
    ELSE c

\* str.lower()
Lower(s) == [i \in DOMAIN s |-> LowerChar(s[i])]

\* s without its leading characters of the set w / its trailing ones
RECURSIVE LStripOf(_, _)
LStripOf(s, w) == IF s # <<>> /\ Head(s) \in w THEN LStripOf(Tail(s), w) ELSE s
RECURSIVE RStripOf(_, _)
RStripOf(s, w) ==
    IF s # <<>> /\ s[Len(s)] \in w THEN RStripOf(SubSeq(s, 1, Len(s) - 1), w) ELSE s

\* str.strip(): leading and trailing whitespace removed
LStrip(s) == LStripOf(s, Whitespace)
RStrip(s) == RStripOf(s, Whitespace)
Strip(s) == RStrip(LStrip(s))

\* str.replace(c, ""): every occurrence of the character removed
Remove(s, c) == SelectSeq(s, LAMBDA x : x # c)

\* sub in s
Contains(s, sub) ==
    \E i \in 1..(Len(s) - Len(sub) + 1) : SubSeq(s, i, i + Len(sub) - 1) = sub

\* s.split(c)[-1]: what follows the last occurrence of c (all of s without one)
AfterLast(s, c) ==
    IF \E i \in DOMAIN s : s[i] = c
    THEN LET last == CHOOSE i \in DOMAIN s : s[i] = c /\ \A j \in DOMAIN s : s[j] = c => j <= i
         IN SubSeq(s, last + 1, Len(s))
    ELSE s

\* decimal digits of a natural number
RECURSIVE NatToStr(_)
NatToStr(n) ==
    IF n < 10 THEN <<DigitChars[n + 1]>>
    ELSE NatToStr(n \div 10) \o <<DigitChars[(n % 10) + 1]>>

\* value of a sequence of decimal digits (0 for the empty sequence)
RECURSIVE DigitsToNat(_)
DigitsToNat(s) ==
    IF s = <<>> THEN 0
    ELSE 10 * DigitsToNat(SubSeq(s, 1, Len(s) - 1)) + DigitVal(s[Len(s)])

\* repr() of a str: single quotes, double quotes when the string has a
\* single quote and no double quote; the backslash, the quote in use and the
\* characters of ReprEscapes are written as escapes
RECURSIVE ReprChars(_, _)
ReprChars(s, q) ==
    IF s = <<>> THEN <<>>
    ELSE LET c == Head(s)
             e == IF c = "\\" \/ c = q THEN <<"\\", c>>
                  ELSE IF \E i \in DOMAIN ReprEscapes : ReprEscapes[i][1] = c
                  THEN ReprEscapes[CHOOSE i \in DOMAIN ReprEscapes : ReprEscapes[i][1] = c][2]
                  ELSE <<c>>
         IN e \o ReprChars(Tail(s), q)

ReprStr(s) ==
    LET q == IF (\E i \in DOMAIN s : s[i] = "'") /\ ~(\E i \in DOMAIN s : s[i] = "\"")
             THEN "\"" ELSE "'"
    IN <<q>> \o ReprChars(s, q) \o <<q>>

\* repr(v); a dict is written with its items in insertion order
RECURSIVE Repr(_)
RECURSIVE ReprItems(_)
Repr(v) ==
    CASE v.t = "none" -> <<"N", "o", "n", "e">>
      [] v.t = "bool" -> IF v.b THEN <<"T", "r", "u", "e">> ELSE <<"F", "a", "l", "s", "e">>
      [] v.t = "int"  -> IF v.n < 0 THEN <<"-">> \o NatToStr(-v.n) ELSE NatToStr(v.n)
      [] v.t = "nan"  -> <<"n", "a", "n">>
      [] v.t = "str"  -> ReprStr(v.s)
      [] v.t = "dict" -> <<"{">> \o ReprItems(v.d) \o <<"}">>
ReprItems(items) ==
    IF items = <<>> THEN <<>>
    ELSE ReprStr(items[1][1]) \o <<":", " ">> \o Repr(items[1][2])
         \o (IF Len(items) > 1 THEN <<",", " ">> \o ReprItems(Tail(items)) ELSE <<>>)

\* str(v): a str is itself, every other value its repr
StrOf(v) == IF v.t = "str" THEN v.s ELSE Repr(v)

(***************************************************************************)
(* float(s).  The grammar is                                                *)
(*   [space] [+|-] ( number | nan | inf | infinity ) [space]                *)
(*   number   = mantissa [ (e|E) [+|-] digits ]                             *)
(*   mantissa = digits [. [digits]] | . digits                              *)
(* with nan/inf/infinity in any case and, in a number, a "_" allowed        *)
(* between two digits.  The result is k = "err" (ValueError), "nan", "inf"  *)
(* or "num".  A "num" is kept as the decimal numeral that was read: its     *)
(* sign, the digits ip before the point (no leading zeros) and the digits   *)
(* fp after it (no trailing zeros); the rounding to binary64 is applied     *)
(* where the value is compared.  A numeral at or above 2^1024 - 2^970       *)
(* rounds to inf, one below 10^-400 is read as zero.                        *)
(***************************************************************************)
AllDigits(s) == \A i \in DOMAIN s : IsDigit(s[i])
Zeros(n) == [i \in 1..n |-> "0"]
FloatResult(k, neg, ip, fp) == [k |-> k, neg |-> neg, ip |-> ip, fp |-> fp]
FloatErr == FloatResult("err", FALSE, <<>>, <<>>)

\* the digits of 2^1024 - 2^970, the least numeral that rounds to inf
FloatMax ==
    <<"1", "7", "9", "7", "6", "9", "3", "1", "3", "4", "8", "6", "2", "3", "1", "5", "8",
    "0", "7", "9", "3", "7", "2", "8", "9", "7", "1", "4", "0", "5", "3", "0", "3", "4",
    "1", "5", "0", "7", "9", "9", "3", "4", "1", "3", "2", "7", "1", "0", "0", "3", "7",
    "8", "2", "6", "9", "3", "6", "1", "7", "3", "7", "7", "8", "9", "8", "0", "4", "4",
    "4", "9", "6", "8", "2", "9", "2", "7", "6", "4", "7", "5", "0", "9", "4", "6", "6",
    "4", "9", "0", "1", "7", "9", "7", "7", "5", "8", "7", "2", "0", "7", "0", "9", "6",
    "3", "3", "0", "2", "8", "6", "4", "1", "6", "6", "9", "2", "8", "8", "7", "9", "1",
    "0", "9", "4", "6", "5", "5", "5", "5", "4", "7", "8", "5", "1", "9", "4", "0", "4",
    "0", "2", "6", "3", "0", "6", "5", "7", "4", "8", "8", "6", "7", "1", "5", "0", "5",
    "8", "2", "0", "6", "8", "1", "9", "0", "8", "9", "0", "2", "0", "0", "0", "7", "0",
    "8", "3", "8", "3", "6", "7", "6", "2", "7", "3", "8", "5", "4", "8", "4", "5", "8",
    "1", "7", "7", "1", "1", "5", "3", "1", "7", "6", "4", "4", "7", "5", "7", "3", "0",
    "2", "7", "0", "0", "6", "9", "8", "5", "5", "5", "7", "1", "3", "6", "6", "9", "5",
    "9", "6", "2", "2", "8", "4", "2", "9", "1", "4", "8", "1", "9", "8", "6", "0", "8",
    "3", "4", "9", "3", "6", "4", "7", "5", "2", "9", "2", "7", "1", "9", "0", "7", "4",
    "1", "6", "8", "4", "4", "4", "3", "6", "5", "5", "1", "0", "7", "0", "4", "3", "4",
    "2", "7", "1", "1", "5", "5", "9", "6", "9", "9", "5", "0", "8", "0", "9", "3", "0",
    "4", "2", "8", "8", "0", "1", "7", "7", "9", "0", "4", "1", "7", "4", "4", "9", "7",
    "7", "9", "2">>

\* a < b for two digit sequences of naturals without leading zeros
DigitsLess(a, b) ==
    \/ Len(a) < Len(b)
    \/ /\ Len(a) = Len(b)
       /\ \E i \in DOMAIN a : /\ DigitVal(a[i]) < DigitVal(b[i])
                              /\ \A j \in 1..(i - 1) : a[j] = b[j]

\* 0.a < 0.b for two digit sequences after the point
FracLess(a, b) ==
    LET n == IF Len(a) > Len(b) THEN Len(a) ELSE Len(b)
    IN DigitsLess(a \o Zeros(n - Len(a)), b \o Zeros(n - Len(b)))

\* half of 0.s plus r/2, as digits after the point
RECURSIVE HalveFrom(_, _)
HalveFrom(s, r) ==
    IF s = <<>> THEN (IF r = 1 THEN <<"5">> ELSE <<>>)
    ELSE LET v == 10 * r + DigitVal(Head(s))
         IN <<DigitChars[(v \div 2) + 1]>> \o HalveFrom(Tail(s), v % 2)

\* the digits after the point of 2^-k, k >= 1
RECURSIVE TwoToMinus(_)
TwoToMinus(k) == IF k = 1 THEN <<"5">> ELSE HalveFrom(TwoToMinus(k - 1), 0)

\* the digits after the point of 1 - 2^-k
BelowOne(k) ==
    LET h == TwoToMinus(k)
    IN [i \in 1..Len(h) |-> IF i = Len(h) THEN DigitChars[11 - DigitVal(h[i])]
                                          ELSE DigitChars[10 - DigitVal(h[i])]]

\* the least c >= 0 with 2^c >= m
RECURSIVE CeilLog2(_)
CeilLog2(m) == IF m <= 1 THEN 0 ELSE 1 + CeilLog2((m + 1) \div 2)

\* the numeral 0.sig * 10^point, sig without leading zeros, written with its
\* point in place
PlacePoint(sig, point, neg) ==
    LET ip == IF point <= 0 THEN <<>>
              ELSE IF point >= Len(sig) THEN sig \o Zeros(point - Len(sig))
              ELSE SubSeq(sig, 1, point)
        fp == IF point <= 0 THEN Zeros(-point) \o sig
              ELSE IF point >= Len(sig) THEN <<>>
              ELSE SubSeq(sig, point + 1, Len(sig))
    IN IF sig = <<>> \/ point < -400 THEN FloatResult("num", neg, <<>>, <<>>)
       ELSE IF point > 309 \/ (point = 309 /\ ~DigitsLess(ip, FloatMax))
            THEN FloatResult("inf", neg, <<>>, <<>>)
       ELSE FloatResult("num", neg, ip, RStripOf(fp, {"0"}))

\* the mantissa: digits with at most one point and at least one digit
ParseMantissa(mant, exponent, neg) ==
    LET dots == {i \in DOMAIN mant : mant[i] = "."}
        dot == IF dots = {} THEN Len(mant) + 1 ELSE CHOOSE i \in dots : \A j \in dots : i <= j
        ipart == SubSeq(mant, 1, dot - 1)
        fpart == SubSeq(mant, dot + 1, Len(mant))
    IN IF ~(AllDigits(ipart) /\ AllDigits(fpart) /\ Len(ipart) + Len(fpart) >= 1)
       THEN FloatErr
       ELSE PlacePoint(LStripOf(ipart \o fpart, {"0"}),
                       Len(LStripOf(ipart \o fpart, {"0"})) - Len(fpart) + exponent, neg)

\* the exponent: an optional sign and at least one digit; a magnitude of more
\* than five digits is kept as 100000, far outside the range of a float
ParseExponent(ex) ==
    LET signed == ex # <<>> /\ ex[1] \in {"+", "-"}
        digits == IF signed THEN Tail(ex) ELSE ex
    IN IF digits = <<>> \/ ~AllDigits(digits) THEN [ok |-> FALSE, n |-> 0]
       ELSE LET d == LStripOf(digits, {"0"})
                mag == IF Len(d) > 5 THEN 100000 ELSE DigitsToNat(d)
            IN [ok |-> TRUE, n |-> IF signed /\ ex[1] = "-" THEN -mag ELSE mag]

\* b (lower case, underscores removed) is split at its first "e"
SplitExponent(b, neg) ==
    LET es == {i \in DOMAIN b : b[i] = "e"}
        epos == IF es = {} THEN Len(b) + 1 ELSE CHOOSE i \in es : \A j \in es : i <= j
    IN IF es = {} THEN ParseMantissa(b, 0, neg)
       ELSE LET e == ParseExponent(SubSeq(b, epos + 1, Len(b)))
            IN IF e.ok THEN ParseMantissa(SubSeq(b, 1, epos - 1), e.n, neg) ELSE FloatErr

\* a number without its sign: underscores checked and dropped, then the
\* exponent and the mantissa
ParseDecimal(body, neg) ==
    IF \A i \in DOMAIN body :
           body[i] = "_" => /\ i > 1 /\ i < Len(body)
                            /\ IsDigit(body[i - 1]) /\ IsDigit(body[i + 1])
    THEN SplitExponent(Lower(Remove(body, "_")), neg)
    ELSE FloatErr

ParseFloat(s) ==
    LET t == RStripOf(LStripOf(s, FloatSpace), FloatSpace)
        signed == t # <<>> /\ t[1] \in {"+", "-"}
        neg == signed /\ t[1] = "-"
        body == IF signed THEN Tail(t) ELSE t
        lb == Lower(body)
    IN CASE lb = <<"n", "a", "n">> -> FloatResult("nan", FALSE, <<>>, <<>>)
         [] lb \in {<<"i", "n", "f">>, <<"i", "n", "f", "i", "n", "i", "t", "y">>}
                -> FloatResult("inf", neg, <<>>, <<>>)
         [] OTHER -> ParseDecimal(body, neg)

\* p < m for an integer m.  For m >= 1 (the only thresholds the rules use)
\* this is the comparison of the binary64 value: a numeral below m rounds
\* to m itself from m - 2^-k on, k = 54 - CeilLog2(m).  For m <= 0 the
\* numerals are compared as they stand.
FloatLess(p, m) ==
    CASE p.k = "nan" -> FALSE
      [] p.k = "inf" -> p.neg
      [] OTHER ->
           IF m >= 1
           THEN \/ p.neg
                \/ LET lim == LStripOf(NatToStr(m - 1), {"0"})
                   IN \/ DigitsLess(p.ip, lim)
                      \/ p.ip = lim /\ FracLess(p.fp, BelowOne(54 - CeilLog2(m)))
           ELSE /\ p.neg
                /\ LET lim == LStripOf(NatToStr(-m), {"0"})
                   IN DigitsLess(lim, p.ip) \/ (p.ip = lim /\ p.fp # <<>>)

\* p >= m for an integer m
FloatGeq(p, m) == p.k # "nan" /\ ~FloatLess(p, m)

(***************************************************************************)
(* String constants of the source.                                         *)
(***************************************************************************)
VERIFIED == <<"V", "E", "R", "I", "F", "I", "E", "D">>
RejectPhrases == {<<"1", "5", " ", "t", "o", " ", "2", "0">>,
                  <<"2", "0", " ", "t", "o", " ", "5", "0">>,
                  <<"5", "0", "+">>}
ApplyUrlHead == <<"h", "t", "t", "p", "s", ":", "/", "/", "w", "w", "w", ".", "u", "p", "w", "o", "r", "k", ".", "c", "o", "m", "/", "n", "x", "/", "p", "r", "o", "p", "o", "s", "a", "l", "s", "/", "j", "o", "b", "/">>
ApplyUrlTail == <<"/", "a", "p", "p", "l", "y", "/">>

\* the numeric competition threshold of the proposal-count rule
HighProposals == 15

(***************************************************************************)
(* filter_jobs.  A configuration is the argument list of the call:         *)
(* verified_payment (bool), min_spent (an integral float) and              *)
(* experience_levels (a list of strings).  days_back only feeds            *)
(* cutoff_time, which nothing reads, and is not carried.                   *)
(* Each rule yields "pass", "reject" (the continue) or "raise" (an         *)
(* exception leaves the loop and the function).                            *)
(***************************************************************************)

\* job.get("client", {})
ClientOf(job) == GetOrEmpty(job, "client")

\* rule 2, verified payment
VerifiedRule(job, cfg) ==
    IF ~cfg.verified_payment THEN "pass"
    ELSE LET client == ClientOf(job)
         IN IF Truthy(Get(job, "isPaymentVerified")) THEN "pass"
            ELSE IF ~HasGet(client) THEN "raise"
            ELSE IF Get(client.d, "paymentMethodVerified") = BoolV(TRUE) THEN "pass"
            ELSE IF Get(client.d, "paymentVerificationStatus") = StrV(VERIFIED) THEN "pass"
            ELSE "reject"

\* does resolving total_spent in filter_jobs raise (client or stats without .get)
SpentRaises(job) ==
    LET client == ClientOf(job)
    IN \/ ~HasGet(client)
       \/ /\ Get(client.d, "totalSpent") = NoneV
          /\ HasKey(client.d, "stats")
          /\ ~HasGet(Item(client.d, "stats"))

\* total_spent as filter_jobs resolves it: client.totalSpent, and
\* client.stats.totalSpent only when that is None and client has "stats"
FilterTotalSpent(job) ==
    LET client == ClientOf(job)
        top == Get(client.d, "totalSpent")
    IN IF top = NoneV /\ HasKey(client.d, "stats")
       THEN Get(Item(client.d, "stats").d, "totalSpent")
       ELSE top

\* total_spent or 0, then float(str(..).replace(",", "").replace("$", "")),
\* 0 when float() raises
CoerceSpent(v) ==
    LET p == ParseFloat(Remove(Remove(StrOf(Or(v, IntV(0))), ","), "$"))
    IN IF p.k = "err" THEN FloatResult("num", FALSE, <<>>, <<>>) ELSE p

\* SpentRule with the comparison turned round (total_spent > min_spent rejects)
SpentRule_Inverted(job, cfg) ==
    IF ~(cfg.min_spent > 0) THEN "pass"
    ELSE IF SpentRaises(job) THEN "raise"
    ELSE IF FloatGeq(CoerceSpent(FilterTotalSpent(job)), cfg.min_spent + 1) THEN "reject"
    ELSE "pass"

\* rule 3, minimum spend
SpentRule(job, cfg) ==
    IF ~(cfg.min_spent > 0) THEN "pass"
    ELSE IF SpentRaises(job) THEN "raise"
    ELSE IF FloatLess(CoerceSpent(FilterTotalSpent(job)), cfg.min_spent) THEN "reject"
    ELSE "pass"

\* job.get("experienceLevel") or job.get("vendor", {}).get("experienceLevel")
LevelRaises(job) ==
    ~Truthy(Get(job, "experienceLevel")) /\ ~HasGet(GetOrEmpty(job, "vendor"))

JobLevel(job) ==
    IF Truthy(Get(job, "experienceLevel")) THEN Get(job, "experienceLevel")
    ELSE Get(GetOrEmpty(job, "vendor").d, "experienceLevel")

\* [l.strip().lower() for l in experience_levels]
Permitted(levels) == {Lower(Strip(levels[i])) : i \in DOMAIN levels}

\* rule 4, experience level; job_level.lower() raises on anything but a str
LevelRule(job, cfg) ==
    IF LevelRaises(job) THEN "raise"
    ELSE LET job_level == JobLevel(job)
         IN IF cfg.experience_levels # <<>> /\ Truthy(job_level)
            THEN IF job_level.t # "str" THEN "raise"
                 ELSE IF Lower(job_level.s) \notin Permitted(cfg.experience_levels)
                 THEN "reject"
                 ELSE "pass"
            ELSE "pass"

\* job.get("proposals") or job.get("proposalCount")
Proposals(job) == Or(Get(job, "proposals"), Get(job, "proposalCount"))

\* ProposalRule with the numeric test off by one (proposals > 15)
ProposalRule_OffByOne(job) ==
    LET proposals == Proposals(job)
    IN IF ~Truthy(proposals) THEN "pass"
       ELSE IF \E phrase \in RejectPhrases : Contains(StrOf(proposals), phrase) THEN "reject"
       ELSE IF proposals.t = "int" /\ proposals.n > HighProposals THEN "reject"
       ELSE "pass"

\* rule 6, proposal count (a bool is an int to isinstance, and True < 15)
ProposalRule(job) ==
    LET proposals == Proposals(job)
    IN IF ~Truthy(proposals) THEN "pass"
       ELSE IF \E phrase \in RejectPhrases : Contains(StrOf(proposals), phrase) THEN "reject"
       ELSE IF proposals.t = "int" /\ proposals.n >= HighProposals THEN "reject"
       ELSE "pass"

\* one iteration of the loop: the rules in order, the first that does not
\* pass decides
JobOutcome(job, cfg) ==
    LET r2 == VerifiedRule(job, cfg)
    IN IF r2 # "pass" THEN r2
       ELSE LET r3 == SpentRule(job, cfg)
            IN IF r3 # "pass" THEN r3
               ELSE LET r4 == LevelRule(job, cfg)
                    IN IF r4 # "pass" THEN r4
                       ELSE IF ProposalRule(job) = "pass" THEN "admit" ELSE "reject"

\* the loop from record i on, with the list built so far
RECURSIVE FilterLoop(_, _, _, _)
FilterLoop(jobs, cfg, i, filtered) ==
    IF i > Len(jobs) THEN [raised |-> FALSE, filtered |-> filtered]
    ELSE LET o == JobOutcome(jobs[i], cfg)
         IN CASE o = "raise" -> [raised |-> TRUE, filtered |-> <<>>]
              [] o = "admit" -> FilterLoop(jobs, cfg, i + 1, Append(filtered, jobs[i]))
              [] OTHER       -> FilterLoop(jobs, cfg, i + 1, filtered)

\* the call. Before the loop filter_jobs prints the number of jobs and, for
\* a list that is not empty, the client of the first job; printed tells
\* whether stdout took these lines. A print that raises (stdout closed by
\* its reader, a full device, a character the encoding of stdout lacks)
\* leaves filter_jobs before the first record is looked at.
filter_jobs(jobs, cfg, printed) ==
    IF printed THEN FilterLoop(jobs, cfg, 1, <<>>)
    ELSE [raised |-> TRUE, filtered |-> <<>>]

(***************************************************************************)
(* transform_job.  The six fields that copy one key with no computation    *)
(* (title, description, skills, budget, hourly_rate, job_type) are not     *)
(* carried.                                                                 *)
(***************************************************************************)

\* job.get("id") or job.get("ciphertext")
DirectId(job) == Or(Get(job, "id"), Get(job, "ciphertext"))

\* job.get("url") or job.get("externalLink")
JobUrl(job) == Or(Get(job, "url"), Get(job, "externalLink"))

\* "~" in job_url is evaluated when no direct id was found and job_url is
\* truthy; it raises TypeError on a number or a bool
UrlRaises(job) ==
    /\ ~Truthy(DirectId(job))
    /\ Truthy(JobUrl(job))
    /\ JobUrl(job).t \in {"int", "bool", "nan"}

\* job_id: the direct id, or "~" + job_url.split("~")[-1] when the url is a
\* str containing "~" (a dict has no split: the except leaves job_id as is)
JobId(job) ==
    LET job_id == DirectId(job)
        job_url == JobUrl(job)
    IN IF /\ ~Truthy(job_id)
          /\ Truthy(job_url)
          /\ job_url.t = "str"
          /\ Contains(job_url.s, <<"~">>)
       THEN StrV(<<"~">> \o AfterLast(job_url.s, "~"))
       ELSE job_id

\* f"https://www.upwork.com/nx/proposals/job/{job_id}/apply/" if job_id else ""
ApplyUrl(job_id) ==
    IF Truthy(job_id) THEN StrV(ApplyUrlHead \o StrOf(job_id) \o ApplyUrlTail)
    ELSE StrV(<<>>)

\* client.get("location", {}).get("country") or client.get("countryCode")
CountryRaises(job) ==
    \/ ~HasGet(ClientOf(job))
    \/ ~HasGet(GetOrEmpty(ClientOf(job).d, "location"))

ClientCountry(job) ==
    LET client == ClientOf(job)
    IN Or(Get(GetOrEmpty(client.d, "location").d, "country"), Get(client.d, "countryCode"))

\* client.get("stats", {}).get(key) if "stats" in client else client.get(key)
StatRaises(job) ==
    LET client == ClientOf(job)
    IN \/ ~HasGet(client)
       \/ HasKey(client.d, "stats") /\ ~HasGet(Item(client.d, "stats"))

ClientStat(job, key) ==
    LET client == ClientOf(job)
    IN IF HasKey(client.d, "stats")
       THEN Get(Item(client.d, "stats").d, key)
       ELSE Get(client.d, key)

\* job.get("postedDate") or job.get("date_created") or job.get("createdAt")
PostedDate(job) == Or(Or(Get(job, "postedDate"), Get(job, "date_created")), Get(job, "createdAt"))

NormalizedJob(job) ==
    [job_id             |-> JobId(job),
     experience_level   |-> JobLevel(job),
     client_country     |-> ClientCountry(job),
     client_total_spent |-> ClientStat(job, "totalSpent"),
     client_hires       |-> ClientStat(job, "totalHires"),
     proposal_count     |-> Proposals(job),
     posted_date        |-> PostedDate(job),
     job_url            |-> JobUrl(job),
     apply_url          |-> ApplyUrl(JobId(job))]

TransformRaises(job) ==
    UrlRaises(job) \/ LevelRaises(job) \/ CountryRaises(job) \/ StatRaises(job)

NoJob == [job_id |-> NoneV, experience_level |-> NoneV, client_country |-> NoneV,
          client_total_spent |-> NoneV, client_hires |-> NoneV, proposal_count |-> NoneV,
          posted_date |-> NoneV, job_url |-> NoneV, apply_url |-> NoneV]

\* the call: the NormalizedJob, or raised
transform_job(job) ==
    IF TransformRaises(job) THEN [raised |-> TRUE, out |-> NoJob]
    ELSE [raised |-> FALSE, out |-> NormalizedJob(job)]

\* [transform_job(j) for j in filtered]
TransformAll(jobs) ==
    IF \E i \in DOMAIN jobs : transform_job(jobs[i]).raised
    THEN [raised |-> TRUE, out |-> <<>>]
    ELSE [raised |-> FALSE, out |-> [i \in DOMAIN jobs |-> transform_job(jobs[i]).out]]

(***************************************************************************)
(* Inputs.  The records the provider's dataset can hold, by the rule they  *)
(* exercise; each is given with the JSON object it encodes.                *)
(***************************************************************************)

\* {}
JobEmpty == EmptyMap
\* {"client": {"paymentMethodVerified": true, "totalSpent": 5000}, "experienceLevel": "Expert", "proposals": "Less than 5", "id": "~01a"}
JobExpert ==
    <<<<<<"c", "l", "i", "e", "n", "t">>, DictV(<<<<<<"p", "a", "y", "m", "e", "n", "t", "M",
      "e", "t", "h", "o", "d", "V", "e", "r", "i", "f", "i", "e", "d">>, BoolV(TRUE)>>,
      <<<<"t", "o", "t", "a", "l", "S", "p", "e", "n", "t">>, IntV(5000)>>>>)>>, <<<<"e", "x",
      "p", "e", "r", "i", "e", "n", "c", "e", "L", "e", "v", "e", "l">>, StrV(<<"E", "x", "p",
      "e", "r", "t">>)>>, <<<<"p", "r", "o", "p", "o", "s", "a", "l", "s">>, StrV(<<"L", "e",
      "s", "s", " ", "t", "h", "a", "n", " ", "5">>)>>, <<<<"i", "d">>, StrV(<<"~", "0", "1",
      "a">>)>>>>
\* {"client": {"paymentVerificationStatus": "VERIFIED", "stats": {"totalSpent": "2,500"}}, "vendor": {"experienceLevel": "Intermediate"}, "proposalCount": 3, "url": "https://x/jobs/~0198abc"}
JobIntermediate ==
    <<<<<<"c", "l", "i", "e", "n", "t">>, DictV(<<<<<<"p", "a", "y", "m", "e", "n", "t", "V",
      "e", "r", "i", "f", "i", "c", "a", "t", "i", "o", "n", "S", "t", "a", "t", "u", "s">>,
      StrV(<<"V", "E", "R", "I", "F", "I", "E", "D">>)>>, <<<<"s", "t", "a", "t", "s">>,
      DictV(<<<<<<"t", "o", "t", "a", "l", "S", "p", "e", "n", "t">>, StrV(<<"2", ",", "5",
      "0", "0">>)>>>>)>>>>)>>, <<<<"v", "e", "n", "d", "o", "r">>, DictV(<<<<<<"e", "x", "p",
      "e", "r", "i", "e", "n", "c", "e", "L", "e", "v", "e", "l">>, StrV(<<"I", "n", "t", "e",
      "r", "m", "e", "d", "i", "a", "t", "e">>)>>>>)>>, <<<<"p", "r", "o", "p", "o", "s", "a",
      "l", "C", "o", "u", "n", "t">>, IntV(3)>>, <<<<"u", "r", "l">>, StrV(<<"h", "t", "t",
      "p", "s", ":", "/", "/", "x", "/", "j", "o", "b", "s", "/", "~", "0", "1", "9", "8", "a",
      "b", "c">>)>>>>
\* {"client": {"paymentMethodVerified": false, "totalSpent": 500}, "experienceLevel": "Entry", "proposals": "20 to 50"}
JobCrowded ==
    <<<<<<"c", "l", "i", "e", "n", "t">>, DictV(<<<<<<"p", "a", "y", "m", "e", "n", "t", "M",
      "e", "t", "h", "o", "d", "V", "e", "r", "i", "f", "i", "e", "d">>, BoolV(FALSE)>>,
      <<<<"t", "o", "t", "a", "l", "S", "p", "e", "n", "t">>, IntV(500)>>>>)>>, <<<<"e", "x",
      "p", "e", "r", "i", "e", "n", "c", "e", "L", "e", "v", "e", "l">>, StrV(<<"E", "n", "t",
      "r", "y">>)>>, <<<<"p", "r", "o", "p", "o", "s", "a", "l", "s">>, StrV(<<"2", "0", " ",
      "t", "o", " ", "5", "0">>)>>>>
\* {"client": null}
JobNullClient == <<<<<<"c", "l", "i", "e", "n", "t">>, NoneV>>>>
\* {"client": {"totalSpent": 1500}, "experienceLevel": 3}
JobNumericLevel ==
    <<<<<<"c", "l", "i", "e", "n", "t">>, DictV(<<<<<<"t", "o", "t", "a", "l", "S", "p", "e",
      "n", "t">>, IntV(1500)>>>>)>>, <<<<"e", "x", "p", "e", "r", "i", "e", "n", "c", "e", "L",
      "e", "v", "e", "l">>, IntV(3)>>>>
\* {"isPaymentVerified": true, "vendor": null}
JobNullVendor ==
    <<<<<<"i", "s", "P", "a", "y", "m", "e", "n", "t", "V", "e", "r", "i", "f", "i", "e",
      "d">>, BoolV(TRUE)>>, <<<<"v", "e", "n", "d", "o", "r">>, NoneV>>>>
\* {"client": {"paymentMethodVerified": true, "totalSpent": 4000}, "url": 5}
JobNumericUrl ==
    <<<<<<"c", "l", "i", "e", "n", "t">>, DictV(<<<<<<"p", "a", "y", "m", "e", "n", "t", "M",
      "e", "t", "h", "o", "d", "V", "e", "r", "i", "f", "i", "e", "d">>, BoolV(TRUE)>>,
      <<<<"t", "o", "t", "a", "l", "S", "p", "e", "n", "t">>, IntV(4000)>>>>)>>, <<<<"u", "r",
      "l">>, IntV(5)>>>>
Jobs ==
    {JobEmpty, JobExpert, JobIntermediate, JobCrowded, JobNullClient, JobNumericLevel,
      JobNullVendor, JobNumericUrl}

\* {"isPaymentVerified": true}
VJobTopTrue ==
    <<<<<<"i", "s", "P", "a", "y", "m", "e", "n", "t", "V", "e", "r", "i", "f", "i", "e",
      "d">>, BoolV(TRUE)>>>>
\* {"isPaymentVerified": false, "client": {"paymentMethodVerified": true}}
VJobTopFalseClientTrue ==
    <<<<<<"i", "s", "P", "a", "y", "m", "e", "n", "t", "V", "e", "r", "i", "f", "i", "e",
      "d">>, BoolV(FALSE)>>, <<<<"c", "l", "i", "e", "n", "t">>, DictV(<<<<<<"p", "a", "y",
      "m", "e", "n", "t", "M", "e", "t", "h", "o", "d", "V", "e", "r", "i", "f", "i", "e",
      "d">>, BoolV(TRUE)>>>>)>>>>
\* {"isPaymentVerified": "false"}
VJobTopString ==
    <<<<<<"i", "s", "P", "a", "y", "m", "e", "n", "t", "V", "e", "r", "i", "f", "i", "e",
      "d">>, StrV(<<"f", "a", "l", "s", "e">>)>>>>
\* {"isPaymentVerified": 1}
VJobTopOne ==
    <<<<<<"i", "s", "P", "a", "y", "m", "e", "n", "t", "V", "e", "r", "i", "f", "i", "e",
      "d">>, IntV(1)>>>>
\* {"client": {"paymentMethodVerified": true}}
VJobClientTrue ==
    <<<<<<"c", "l", "i", "e", "n", "t">>, DictV(<<<<<<"p", "a", "y", "m", "e", "n", "t", "M",
      "e", "t", "h", "o", "d", "V", "e", "r", "i", "f", "i", "e", "d">>, BoolV(TRUE)>>>>)>>>>
\* {"client": {"paymentMethodVerified": "true"}}
VJobClientString ==
    <<<<<<"c", "l", "i", "e", "n", "t">>, DictV(<<<<<<"p", "a", "y", "m", "e", "n", "t", "M",
      "e", "t", "h", "o", "d", "V", "e", "r", "i", "f", "i", "e", "d">>, StrV(<<"t", "r", "u",
      "e">>)>>>>)>>>>
\* {"client": {"paymentVerificationStatus": "VERIFIED"}}
VJobStatusVerified ==
    <<<<<<"c", "l", "i", "e", "n", "t">>, DictV(<<<<<<"p", "a", "y", "m", "e", "n", "t", "V",
      "e", "r", "i", "f", "i", "c", "a", "t", "i", "o", "n", "S", "t", "a", "t", "u", "s">>,
      StrV(<<"V", "E", "R", "I", "F", "I", "E", "D">>)>>>>)>>>>
\* {"client": {"paymentMethodVerified": false, "paymentVerificationStatus": "PENDING"}}
VJobStatusPending ==
    <<<<<<"c", "l", "i", "e", "n", "t">>, DictV(<<<<<<"p", "a", "y", "m", "e", "n", "t", "M",
      "e", "t", "h", "o", "d", "V", "e", "r", "i", "f", "i", "e", "d">>, BoolV(FALSE)>>,
      <<<<"p", "a", "y", "m", "e", "n", "t", "V", "e", "r", "i", "f", "i", "c", "a", "t", "i",
      "o", "n", "S", "t", "a", "t", "u", "s">>, StrV(<<"P", "E", "N", "D", "I", "N",
      "G">>)>>>>)>>>>
\* {"isPaymentVerified": null, "client": null}
VJobNullClient ==
    <<<<<<"i", "s", "P", "a", "y", "m", "e", "n", "t", "V", "e", "r", "i", "f", "i", "e",
      "d">>, NoneV>>, <<<<"c", "l", "i", "e", "n", "t">>, NoneV>>>>
\* {}
VJobEmpty == EmptyMap
VerifiedJobs ==
    {VJobTopTrue, VJobTopFalseClientTrue, VJobTopString, VJobTopOne, VJobClientTrue,
      VJobClientString, VJobStatusVerified, VJobStatusPending, VJobNullClient, VJobEmpty}

\* {"client": {"stats": {"totalSpent": "2,500"}}}
SJobStatsString ==
    <<<<<<"c", "l", "i", "e", "n", "t">>, DictV(<<<<<<"s", "t", "a", "t", "s">>,
      DictV(<<<<<<"t", "o", "t", "a", "l", "S", "p", "e", "n", "t">>, StrV(<<"2", ",", "5",
      "0", "0">>)>>>>)>>>>)>>>>
\* {"client": {"totalSpent": 5000, "stats": {"totalSpent": 10}}}
SJobBoth ==
    <<<<<<"c", "l", "i", "e", "n", "t">>, DictV(<<<<<<"t", "o", "t", "a", "l", "S", "p", "e",
      "n", "t">>, IntV(5000)>>, <<<<"s", "t", "a", "t", "s">>, DictV(<<<<<<"t", "o", "t", "a",
      "l", "S", "p", "e", "n", "t">>, IntV(10)>>>>)>>>>)>>>>
\* {"client": {"totalSpent": "nan"}}
SJobNanString ==
    <<<<<<"c", "l", "i", "e", "n", "t">>, DictV(<<<<<<"t", "o", "t", "a", "l", "S", "p", "e",
      "n", "t">>, StrV(<<"n", "a", "n">>)>>>>)>>>>
\* {"client": {"totalSpent": "$2,500.00"}}
SJobDollars ==
    <<<<<<"c", "l", "i", "e", "n", "t">>, DictV(<<<<<<"t", "o", "t", "a", "l", "S", "p", "e",
      "n", "t">>, StrV(<<"$", "2", ",", "5", "0", "0", ".", "0", "0">>)>>>>)>>>>
\* {"client": {"totalSpent": null, "stats": {"totalSpent": 3000}}}
SJobNullTop ==
    <<<<<<"c", "l", "i", "e", "n", "t">>, DictV(<<<<<<"t", "o", "t", "a", "l", "S", "p", "e",
      "n", "t">>, NoneV>>, <<<<"s", "t", "a", "t", "s">>, DictV(<<<<<<"t", "o", "t", "a", "l",
      "S", "p", "e", "n", "t">>, IntV(3000)>>>>)>>>>)>>>>
\* {"client": {"totalSpent": "n/a"}}
SJobUnparsable ==
    <<<<<<"c", "l", "i", "e", "n", "t">>, DictV(<<<<<<"t", "o", "t", "a", "l", "S", "p", "e",
      "n", "t">>, StrV(<<"n", "/", "a">>)>>>>)>>>>
\* {"client": {"totalSpent": 0, "stats": {"totalSpent": 9000}}}
SJobZeroTop ==
    <<<<<<"c", "l", "i", "e", "n", "t">>, DictV(<<<<<<"t", "o", "t", "a", "l", "S", "p", "e",
      "n", "t">>, IntV(0)>>, <<<<"s", "t", "a", "t", "s">>, DictV(<<<<<<"t", "o", "t", "a",
      "l", "S", "p", "e", "n", "t">>, IntV(9000)>>>>)>>>>)>>>>
\* {"client": {}}
SJobNoSpend == <<<<<<"c", "l", "i", "e", "n", "t">>, DictV(EmptyMap)>>>>
\* {"client": {"stats": null}}
SJobNullStats ==
    <<<<<<"c", "l", "i", "e", "n", "t">>, DictV(<<<<<<"s", "t", "a", "t", "s">>, NoneV>>>>)>>>>
\* {"client": {"totalSpent": 999}}
SJobLow ==
    <<<<<<"c", "l", "i", "e", "n", "t">>, DictV(<<<<<<"t", "o", "t", "a", "l", "S", "p", "e",
      "n", "t">>, IntV(999)>>>>)>>>>
\* {"client": {"totalSpent": "1e4"}}
SJobExponent ==
    <<<<<<"c", "l", "i", "e", "n", "t">>, DictV(<<<<<<"t", "o", "t", "a", "l", "S", "p", "e",
      "n", "t">>, StrV(<<"1", "e", "4">>)>>>>)>>>>
\* {"client": {"totalSpent": "999.99999999999999"}}
SJobRoundsUp ==
    <<<<<<"c", "l", "i", "e", "n", "t">>, DictV(<<<<<<"t", "o", "t", "a", "l", "S", "p", "e",
      "n", "t">>, StrV(<<"9", "9", "9", ".", "9", "9", "9", "9", "9", "9", "9", "9", "9", "9",
      "9", "9", "9", "9">>)>>>>)>>>>
\* {"client": {"totalSpent": "2_500\n"}}
SJobNewline ==
    <<<<<<"c", "l", "i", "e", "n", "t">>, DictV(<<<<<<"t", "o", "t", "a", "l", "S", "p", "e",
      "n", "t">>, StrV(<<"2", "_", "5", "0", "0", "\n">>)>>>>)>>>>
SpendJobs ==
    {SJobStatsString, SJobBoth, SJobNanString, SJobDollars, SJobNullTop, SJobUnparsable,
      SJobZeroTop, SJobNoSpend, SJobNullStats, SJobLow, SJobExponent, SJobRoundsUp, SJobNewline}

\* {"proposals": 20}
PJobTwenty == <<<<<<"p", "r", "o", "p", "o", "s", "a", "l", "s">>, IntV(20)>>>>
\* {"proposalCount": 15}
PJobFifteen ==
    <<<<<<"p", "r", "o", "p", "o", "s", "a", "l", "C", "o", "u", "n", "t">>, IntV(15)>>>>
\* {"proposals": 14}
PJobFourteen == <<<<<<"p", "r", "o", "p", "o", "s", "a", "l", "s">>, IntV(14)>>>>
\* {"client": {"paymentMethodVerified": true, "totalSpent": 9000}, "experienceLevel": "Expert", "proposals": "20 to 50"}
PJobBucket20to50 ==
    <<<<<<"c", "l", "i", "e", "n", "t">>, DictV(<<<<<<"p", "a", "y", "m", "e", "n", "t", "M",
      "e", "t", "h", "o", "d", "V", "e", "r", "i", "f", "i", "e", "d">>, BoolV(TRUE)>>,
      <<<<"t", "o", "t", "a", "l", "S", "p", "e", "n", "t">>, IntV(9000)>>>>)>>, <<<<"e", "x",
      "p", "e", "r", "i", "e", "n", "c", "e", "L", "e", "v", "e", "l">>, StrV(<<"E", "x", "p",
      "e", "r", "t">>)>>, <<<<"p", "r", "o", "p", "o", "s", "a", "l", "s">>, StrV(<<"2", "0",
      " ", "t", "o", " ", "5", "0">>)>>>>
\* {"proposals": "15 to 20"}
PJobBucket15to20 ==
    <<<<<<"p", "r", "o", "p", "o", "s", "a", "l", "s">>, StrV(<<"1", "5", " ", "t", "o", " ",
      "2", "0">>)>>>>
\* {"proposals": "", "proposalCount": "50+"}
PJobBucket50 ==
    <<<<<<"p", "r", "o", "p", "o", "s", "a", "l", "s">>, StrV(<<>>)>>, <<<<"p", "r", "o", "p",
      "o", "s", "a", "l", "C", "o", "u", "n", "t">>, StrV(<<"5", "0", "+">>)>>>>
\* {"proposals": "10 to 15"}
PJobBucket10to15 ==
    <<<<<<"p", "r", "o", "p", "o", "s", "a", "l", "s">>, StrV(<<"1", "0", " ", "t", "o", " ",
      "1", "5">>)>>>>
\* {"proposals": 0, "proposalCount": 20}
PJobZeroThenTwenty ==
    <<<<<<"p", "r", "o", "p", "o", "s", "a", "l", "s">>, IntV(0)>>, <<<<"p", "r", "o", "p",
      "o", "s", "a", "l", "C", "o", "u", "n", "t">>, IntV(20)>>>>
\* {"isPaymentVerified": false, "client": {"paymentMethodVerified": true}}
PJobTopFalseClientTrue ==
    <<<<<<"i", "s", "P", "a", "y", "m", "e", "n", "t", "V", "e", "r", "i", "f", "i", "e",
      "d">>, BoolV(FALSE)>>, <<<<"c", "l", "i", "e", "n", "t">>, DictV(<<<<<<"p", "a", "y",
      "m", "e", "n", "t", "M", "e", "t", "h", "o", "d", "V", "e", "r", "i", "f", "i", "e",
      "d">>, BoolV(TRUE)>>>>)>>>>
\* {"vendor": "n/a", "proposals": 3}
PJobStringVendor ==
    <<<<<<"v", "e", "n", "d", "o", "r">>, StrV(<<"n", "/", "a">>)>>, <<<<"p", "r", "o", "p",
      "o", "s", "a", "l", "s">>, IntV(3)>>>>
\* {"proposals": {"range": "20 to 50"}}
PJobDictBucket ==
    <<<<<<"p", "r", "o", "p", "o", "s", "a", "l", "s">>, DictV(<<<<<<"r", "a", "n", "g", "e">>,
      StrV(<<"2", "0", " ", "t", "o", " ", "5", "0">>)>>>>)>>>>
ProposalJobs ==
    {PJobTwenty, PJobFifteen, PJobFourteen, PJobBucket20to50, PJobBucket15to20, PJobBucket50,
      PJobBucket10to15, PJobZeroThenTwenty, PJobTopFalseClientTrue, PJobStringVendor,
      PJobDictBucket}

\* {"id": "~01a"}
IJobId == <<<<<<"i", "d">>, StrV(<<"~", "0", "1", "a">>)>>>>
\* {"id": "", "ciphertext": "~02b"}
IJobCiphertext ==
    <<<<<<"i", "d">>, StrV(<<>>)>>, <<<<"c", "i", "p", "h", "e", "r", "t", "e", "x", "t">>,
      StrV(<<"~", "0", "2", "b">>)>>>>
\* {"url": "https://x/jobs/~0198abc"}
IJobUrl ==
    <<<<<<"u", "r", "l">>, StrV(<<"h", "t", "t", "p", "s", ":", "/", "/", "x", "/", "j", "o",
      "b", "s", "/", "~", "0", "1", "9", "8", "a", "b", "c">>)>>>>
\* {"id": "~01a", "url": "https://x/jobs/~0198abc"}
IJobIdAndUrl ==
    <<<<<<"i", "d">>, StrV(<<"~", "0", "1", "a">>)>>, <<<<"u", "r", "l">>, StrV(<<"h", "t",
      "t", "p", "s", ":", "/", "/", "x", "/", "j", "o", "b", "s", "/", "~", "0", "1", "9", "8",
      "a", "b", "c">>)>>>>
\* {}
IJobNothing == EmptyMap
\* {"url": "https://x/jobs/slug"}
IJobSlugUrl ==
    <<<<<<"u", "r", "l">>, StrV(<<"h", "t", "t", "p", "s", ":", "/", "/", "x", "/", "j", "o",
      "b", "s", "/", "s", "l", "u", "g">>)>>>>
\* {"externalLink": "https://x/~a~b"}
IJobTwoTildes ==
    <<<<<<"e", "x", "t", "e", "r", "n", "a", "l", "L", "i", "n", "k">>, StrV(<<"h", "t", "t",
      "p", "s", ":", "/", "/", "x", "/", "~", "a", "~", "b">>)>>>>
\* {"id": 7}
IJobNumericId == <<<<<<"i", "d">>, IntV(7)>>>>
\* {"id": "", "ciphertext": "", "url": ""}
IJobEmptyStrings ==
    <<<<<<"i", "d">>, StrV(<<>>)>>, <<<<"c", "i", "p", "h", "e", "r", "t", "e", "x", "t">>,
      StrV(<<>>)>>, <<<<"u", "r", "l">>, StrV(<<>>)>>>>
\* {"url": 5}
IJobNumericUrl == <<<<<<"u", "r", "l">>, IntV(5)>>>>
\* {"id": {"v": 1}}
IJobDictId == <<<<<<"i", "d">>, DictV(<<<<<<"v">>, IntV(1)>>>>)>>>>
\* {"ciphertext": 0}
IJobZeroCiphertext ==
    <<<<<<"c", "i", "p", "h", "e", "r", "t", "e", "x", "t">>, IntV(0)>>>>
\* {"ciphertext": false}
IJobFalseCiphertext ==
    <<<<<<"c", "i", "p", "h", "e", "r", "t", "e", "x", "t">>, BoolV(FALSE)>>>>
\* {"id": "", "ciphertext": {}}
IJobEmptyDictCiphertext ==
    <<<<<<"i", "d">>, StrV(<<>>)>>, <<<<"c", "i", "p", "h", "e", "r", "t", "e", "x", "t">>,
      DictV(EmptyMap)>>>>
IdJobs ==
    {IJobId, IJobCiphertext, IJobUrl, IJobIdAndUrl, IJobNothing, IJobSlugUrl, IJobTwoTildes,
      IJobNumericId, IJobEmptyStrings, IJobNumericUrl, IJobDictId, IJobZeroCiphertext,
      IJobFalseCiphertext, IJobEmptyDictCiphertext}

\* the lists --experience can give: "", "expert", "intermediate,<tab>Expert<newline>",
\* "entry,intermediate,expert", each split at ","
LevelLists == {<<>>,
               <<<<"e", "x", "p", "e", "r", "t">>>>,
               <<<<"i", "n", "t", "e", "r", "m", "e", "d", "i", "a", "t", "e">>, <<"\t", "E", "x", "p", "e", "r", "t", "\n">>>>,
               <<<<"e", "n", "t", "r", "y">>, <<"i", "n", "t", "e", "r", "m", "e", "d", "i", "a", "t", "e">>, <<"e", "x", "p", "e", "r", "t">>>>}

\* the values --min-spent takes in the model
MinSpents == {0, 1000, 3000}

Configs == [verified_payment : BOOLEAN, min_spent : MinSpents, experience_levels : LevelLists]

\* longest dataset the provider returns
MaxJobs == 2

JobLists(U) == UNION {[1..n -> U] : n \in 0..MaxJobs}

(***************************************************************************)
(* main of the ingestion script.                                           *)
(*   pc           where main is: "start", "fetched", "filtered",           *)
(*                "transformed", "saved", or where it ended early:         *)
(*                "exited" in its handler of an exception of scrape_jobs   *)
(*                (the handler prints the error and calls sys.exit(1)),    *)
(*                "crashed" on an exception a record raised in filter_jobs *)
(*                or transform_job, "save_failed" on an exception of       *)
(*                os.makedirs, open or json.dump, "print_failed" on an     *)
(*                exception of a print outside that handler; nothing       *)
(*                catches the last three                                   *)
(*   cfg          the parsed command line                                   *)
(*   dataset      what the provider holds for this run                      *)
(*   raw_jobs, filtered, output_data   the locals of main                   *)
(*   file         the file at the output path: whether the run opened it   *)
(*                for writing, the records it holds, and whether it holds  *)
(*                something else than the whole array (the array cut       *)
(*                short, or the text of an error response)                 *)
(*   exit_code    the process exit status, -1 while running                 *)
(* Every print writes to stdout, which the caller of the script provides:  *)
(* whether a print succeeds is the environment's choice.                   *)
(***************************************************************************)
VARIABLES pc, cfg, dataset, raw_jobs, filtered, output_data, file, exit_code,
          scrape, opc, input_jobs, max_workers, tasks, doc_creation_lock, results

vars == <<pc, cfg, dataset, raw_jobs, filtered, output_data, file, exit_code,
          scrape, opc, input_jobs, max_workers, tasks, doc_creation_lock, results>>

\* the state of the outreach script (upwork_proposal_generator.py)
outreach_vars == <<opc, input_jobs, max_workers, tasks, doc_creation_lock, results>>

\* scrape_jobs before its first statement: no request made yet
ScrapeIdle ==
    [phase |-> "init", attempt |-> 0, start_failures |-> 0,
     polls |-> 0, poll_errors |-> 0, dataset_failures |-> 0]

\* the outreach script is not running
OutreachIdle ==
    /\ opc = "off"
    /\ input_jobs = <<>>
    /\ max_workers = 1
    /\ tasks = <<>>
    /\ doc_creation_lock = 1
    /\ results = <<>>

InitWith(U) ==
    /\ pc = "start"
    /\ cfg \in Configs
    /\ dataset \in JobLists(U)
    /\ raw_jobs = <<>>
    /\ filtered = <<>>
    /\ output_data = <<>>
    /\ file = [written |-> FALSE, content |-> <<>>, cut |-> FALSE]
    /\ exit_code = -1
    /\ scrape = ScrapeIdle
    /\ OutreachIdle

Init == InitWith(Jobs)
InitVerified == InitWith(VerifiedJobs)
InitSpend == InitWith(SpendJobs)
InitProposals == InitWith(ProposalJobs)
InitIds == InitWith(IdJobs)

\* the exit statuses of a process whose main ends with status c: c itself,
\* or 120 when the flush of stdout at interpreter exit fails
ExitStatus(c) == {c, 120}

\* main ends on an exception of a print that nothing catches
PrintFails ==
    /\ pc' = "print_failed"
    /\ exit_code' \in ExitStatus(1)

\* the handler of an HTTPError of the start request writes the text of the
\* response to .tmp/error.log, and passes over any exception of that: when
\* args.output names that file, it is the output file that is opened for
\* writing and left holding the text
ErrorLogged == [written |-> TRUE, content |-> <<>>, cut |-> TRUE]

\* raw_jobs = scrape_jobs(...) returns the dataset, after start requests
\* that may have failed and been logged
ScrapeOk ==
    /\ pc = "start"
    /\ raw_jobs' = dataset
    /\ pc' = "fetched"
    /\ file' \in {file, ErrorLogged}
    /\ UNCHANGED <<cfg, dataset, filtered, output_data, exit_code>>
    /\ UNCHANGED <<scrape, outreach_vars>>

\* main ends without a list: its first print (before the try) raises, or
\* scrape_jobs raises, after start requests that may have failed and been
\* logged, and main's handler ends the process, by sys.exit(1) or by the
\* exception of its own print
ScrapeFail ==
    /\ pc = "start"
    /\ \E announced \in BOOLEAN :
          IF announced
          THEN /\ pc' = "exited"
               /\ exit_code' \in ExitStatus(1)
               /\ file' \in {file, ErrorLogged}
          ELSE /\ PrintFails
               /\ UNCHANGED file
    /\ UNCHANGED <<cfg, dataset, raw_jobs, filtered, output_data>>
    /\ UNCHANGED <<scrape, outreach_vars>>

\* print(f"Fetched ..."), then filtered = filter_jobs(raw_jobs, ...) with
\* the prints it starts with; no exception is caught
FilterStep ==
    /\ pc = "fetched"
    /\ \E printed \in BOOLEAN :
          LET r == filter_jobs(raw_jobs, cfg, printed)
          IN IF ~printed
             THEN /\ PrintFails
                  /\ UNCHANGED filtered
             ELSE IF r.raised
             THEN /\ pc' = "crashed"
                  /\ exit_code' \in ExitStatus(1)
                  /\ UNCHANGED filtered
             ELSE /\ pc' = "filtered"
                  /\ filtered' = r.filtered
                  /\ UNCHANGED exit_code
    /\ UNCHANGED <<cfg, dataset, raw_jobs, output_data, file>>
    /\ UNCHANGED <<scrape, outreach_vars>>

\* print(f"Filtered down to ..."), the print of the first job's keys when
\* filtered is not empty, then output_data = [transform_job(j) for j in
\* filtered]; no exception is caught
TransformStep ==
    /\ pc = "filtered"
    /\ \E printed \in BOOLEAN :
          LET r == TransformAll(filtered)
          IN IF ~printed
             THEN /\ PrintFails
                  /\ UNCHANGED output_data
             ELSE IF r.raised
             THEN /\ pc' = "crashed"
                  /\ exit_code' \in ExitStatus(1)
                  /\ UNCHANGED output_data
             ELSE /\ pc' = "transformed"
                  /\ output_data' = r.out
                  /\ UNCHANGED exit_code
    /\ UNCHANGED <<cfg, dataset, raw_jobs, filtered, file>>
    /\ UNCHANGED <<scrape, outreach_vars>>

\* the save of main and its last print, with their four ways out:
\*  - os.makedirs of the output directory or open(args.output, "w") raises
\*    OSError (the path is empty, names a directory, lies under a regular
\*    file, is not writable): nothing catches it, main ends with a traceback
\*    and exit status 1, and no file was opened;
\*  - open succeeds, which creates or empties the file, and json.dump or the
\*    close of the with block raises OSError (the disk is full, the file
\*    size limit is reached): nothing catches it, main ends with exit status
\*    1 and the file is left cut short, holding the records that were
\*    written whole before the failure (none, some or all of them) and not
\*    the end of the array;
\*  - json.dump(output_data, f) writes the whole array, the file is closed,
\*    and print(f"Saved to ...") raises: nothing catches it, main ends with
\*    a traceback and the file is whole;
\*  - the same and the print succeeds: main returns.
\* In each case the flush of stdout at exit can fail and make the status 120.
SaveStep ==
    /\ pc = "transformed"
    /\ \E opened \in BOOLEAN :
        IF opened
        THEN \/ /\ file' = [written |-> TRUE, content |-> output_data, cut |-> FALSE]
                /\ \E printed \in BOOLEAN :
                       IF printed
                       THEN /\ pc' = "saved"
                            /\ exit_code' \in ExitStatus(0)
                       ELSE PrintFails
             \/ \E n \in 0..Len(output_data) :
                    /\ file' = [written |-> TRUE, content |-> SubSeq(output_data, 1, n),
                                cut |-> TRUE]
                    /\ pc' = "save_failed"
                    /\ exit_code' \in ExitStatus(1)
        ELSE /\ pc' = "save_failed"
             /\ exit_code' \in ExitStatus(1)
             /\ UNCHANGED file
    /\ UNCHANGED <<cfg, dataset, raw_jobs, filtered, output_data>>
    /\ UNCHANGED <<scrape, outreach_vars>>

Next == ScrapeOk \/ ScrapeFail \/ FilterStep \/ TransformStep \/ SaveStep

Spec == Init /\ [][Next]_vars
SpecVerified == InitVerified /\ [][Next]_vars
SpecSpend == InitSpend /\ [][Next]_vars
SpecProposals == InitProposals /\ [][Next]_vars
SpecIds == InitIds /\ [][Next]_vars

(***************************************************************************)
(* Properties.                                                              *)
(***************************************************************************)

Range(s) == {s[i] : i \in DOMAIN s}

\* main has called filter_jobs and it returned
FilterReturned == pc \in {"filtered", "transformed", "saved"}

\* the records filter_jobs returns for a list under a configuration, its
\* prints taken by stdout; a call that raises returns nothing
Admitted(jobs, c) ==
    LET r == filter_jobs(jobs, c, TRUE) IN IF r.raised THEN {} ELSE Range(r.filtered)

\* c2 is c1 with one threshold tightened
RaisesMinSpent(c1, c2) ==
    /\ c2.min_spent > c1.min_spent
    /\ c2.verified_payment = c1.verified_payment
    /\ c2.experience_levels = c1.experience_levels

EnablesVerified(c1, c2) ==
    /\ ~c1.verified_payment /\ c2.verified_payment
    /\ c2.min_spent = c1.min_spent
    /\ c2.experience_levels = c1.experience_levels

NarrowsLevels(c1, c2) ==
    /\ c2.min_spent = c1.min_spent
    /\ c2.verified_payment = c1.verified_payment
    /\ Permitted(c2.experience_levels) \subseteq Permitted(c1.experience_levels)

Tightens(c1, c2) ==
    RaisesMinSpent(c1, c2) \/ EnablesVerified(c1, c2) \/ NarrowsLevels(c1, c2)

\* the same, the allow-set narrowed to a subset that is not empty
TightensNonEmpty(c1, c2) ==
    \/ RaisesMinSpent(c1, c2)
    \/ EnablesVerified(c1, c2)
    \/ NarrowsLevels(c1, c2) /\ c2.experience_levels # <<>>

\* C1 as stated: tightening one threshold (a narrowing of the allow-set to
\* any subset, the empty one included) never admits a job the first
\* configuration did not admit.
C1_MonotoneAnySubset ==
    pc = "filtered" =>
        \A c2 \in Configs :
            Tightens(cfg, c2) => Admitted(raw_jobs, c2) \subseteq Range(filtered)

\* two calls compared by what they gave: both returned a list, and the list
\* of the second is a subset of the list of the first
BothReturn(r1, r2) ==
    ~r1.raised /\ ~r2.raised
ReturnsSubset(r1, r2) ==
    Range(r2.filtered) \subseteq Range(r1.filtered)

\* C1 amended, stated of every list main hands to filter_jobs, before the
\* call and after it returned: for every list, malformed records included,
\* and every tightening with the allow-set narrowed to a non-empty subset,
\* every record whose rules end in admission under the tightened
\* configuration ends in admission under the first; and when both calls
\* return a list, the list of the tightened call is a subset of the list of
\* the first. Nothing is stated of the lists when a call raises on a
\* malformed record (C2): the first call can raise where the tightened call
\* returns a list.
C1_MonotoneNonEmptySubset ==
    pc \in {"fetched", "filtered"} =>
        LET r1 == filter_jobs(raw_jobs, cfg, TRUE)
        IN \A c2 \in Configs :
               TightensNonEmpty(cfg, c2) =>
                   /\ \A i \in DOMAIN raw_jobs :
                          JobOutcome(raw_jobs[i], c2) = "admit"
                              => JobOutcome(raw_jobs[i], cfg) = "admit"
                   /\ LET r2 == filter_jobs(raw_jobs, c2, TRUE)
                      IN BothReturn(r1, r2) => ReturnsSubset(r1, r2)

\* C1 witness: filter_jobs returned a list, and under a tightened
\* configuration it returns a list too, which still holds a job and holds
\* fewer
C1_Witness ==
    /\ pc = "filtered"
    /\ \E c2 \in Configs :
           /\ TightensNonEmpty(cfg, c2)
           /\ BothReturn(filter_jobs(raw_jobs, cfg, TRUE), filter_jobs(raw_jobs, c2, TRUE))
           /\ Admitted(raw_jobs, c2) # {}
           /\ Admitted(raw_jobs, c2) # Range(filtered)

\* C2: no input list makes filter_jobs or transform_job raise: main never
\* ends on an exception that a record raised in one of them.
C2_NeverRaises == pc # "crashed"

\* the verified flag is affirmatively true: a top-level boolean true, the
\* client's boolean true, or the client's status "VERIFIED"
AffirmativelyVerified(job) ==
    \/ Get(job, "isPaymentVerified") = BoolV(TRUE)
    \/ /\ HasGet(ClientOf(job))
       /\ \/ Get(ClientOf(job).d, "paymentMethodVerified") = BoolV(TRUE)
          \/ Get(ClientOf(job).d, "paymentVerificationStatus") = StrV(VERIFIED)

\* C3: with verified payment required, every admitted job has an
\* affirmatively true verified flag.
C3_AdmittedOnlyIfVerified ==
    FilterReturned /\ cfg.verified_payment =>
        \A k \in DOMAIN filtered : AffirmativelyVerified(filtered[k])

\* C4: with min_spent > 0, the coerced total spend of every admitted job is
\* a number >= min_spent.
C4_AdmittedSpendAtLeastMin ==
    FilterReturned /\ cfg.min_spent > 0 =>
        \A k \in DOMAIN filtered :
            FloatGeq(CoerceSpent(FilterTotalSpent(filtered[k])), cfg.min_spent)

\* the first present, non-null value among the candidate keys, in order
RECURSIVE FirstNonNull(_, _)
FirstNonNull(m, keys) ==
    IF keys = <<>> THEN NoneV
    ELSE IF Get(m, Head(keys)) # NoneV THEN Get(m, Head(keys))
    ELSE FirstNonNull(m, Tail(keys))

\* a proposal count of the high-competition kind
HighCompetition(v) ==
    \/ v.t = "int" /\ v.n >= HighProposals
    \/ v.t = "str" /\ \E phrase \in RejectPhrases : Contains(v.s, phrase)

\* C5: under every configuration, no admitted job has a proposal count that
\* is a number >= 15 or a string containing a high-competition bucket.
C5_HighCompetitionNeverAdmitted ==
    \A k \in DOMAIN filtered :
        /\ ~HighCompetition(FirstNonNull(filtered[k], <<"proposals", "proposalCount">>))
        /\ ~HighCompetition(Proposals(filtered[k]))

\* C5 witness: filter_jobs returned, and a high-competition record that
\* passes the verification, spend and level rules of a configuration that
\* applies them all was in its input
C5_Witness ==
    /\ pc = "filtered"
    /\ cfg.verified_payment /\ cfg.min_spent > 0 /\ cfg.experience_levels # <<>>
    /\ \E i \in DOMAIN raw_jobs :
           /\ HighCompetition(Proposals(raw_jobs[i]))
           /\ VerifiedRule(raw_jobs[i], cfg) = "pass"
           /\ SpentRule(raw_jobs[i], cfg) = "pass"
           /\ LevelRule(raw_jobs[i], cfg) = "pass"

\* out is in, with some positions left out: same records, same order, each
\* position used at most once
IsSubsequence(out, in) ==
    \E f \in [DOMAIN out -> DOMAIN in] :
        /\ \A k \in DOMAIN out : out[k] = in[f[k]]
        /\ \A k, l \in DOMAIN out : k < l => f[k] < f[l]

\* main has ended, in whatever way
MainEnded == pc \in {"exited", "crashed", "save_failed", "print_failed", "saved"}

\* C6: the list filter_jobs returns is a subsequence of its input, and once
\* main has ended with records admitted, however it ended, the output file
\* holds one NormalizedJob per admitted record, in order.
C6_StableSelection ==
    /\ FilterReturned => IsSubsequence(filtered, raw_jobs)
    /\ MainEnded /\ filtered # <<>> =>
           /\ file.written /\ ~file.cut
           /\ Len(file.content) = Len(filtered)
           /\ \A k \in DOMAIN filtered : file.content[k] = NormalizedJob(filtered[k])

\* C7: resolution is first-present-non-null: a non-null `proposals` is the
\* resolved proposal count, and with verified payment required a job whose
\* top-level verified flag is false is rejected whatever the client's flag.
C7_FirstNonNullWins ==
    pc # "start" =>
        \A i \in DOMAIN raw_jobs :
            /\ Proposals(raw_jobs[i])
                   = FirstNonNull(raw_jobs[i], <<"proposals", "proposalCount">>)
            /\ cfg.verified_payment /\ Get(raw_jobs[i], "isPaymentVerified") = BoolV(FALSE)
                   => JobOutcome(raw_jobs[i], cfg) # "admit"

\* the record carries both client.totalSpent and client.stats.totalSpent
HasBothSpends(job) ==
    /\ HasGet(ClientOf(job))
    /\ Get(ClientOf(job).d, "totalSpent") # NoneV
    /\ HasGet(GetOrEmpty(ClientOf(job).d, "stats"))
    /\ Get(GetOrEmpty(ClientOf(job).d, "stats").d, "totalSpent") # NoneV

\* C8: for a record carrying both values, the client_total_spent written is
\* the value the minimum-spend rule evaluated, client.totalSpent.
C8_SameSpendWritten ==
    pc = "saved" /\ cfg.min_spent > 0 =>
        \A k \in DOMAIN filtered :
            HasBothSpends(filtered[k]) =>
                /\ file.content[k].client_total_spent = FilterTotalSpent(filtered[k])
                /\ file.content[k].client_total_spent
                       = Get(ClientOf(filtered[k]).d, "totalSpent")

\* a field that holds something: not null and not the empty string
NonEmpty(v) == v # NoneV /\ v # StrV(<<>>)

\* C9: apply_url is non-empty iff job_id is, and a non-empty apply_url is
\* the template around exactly that job_id.
C9_ApplyUrlIffJobId ==
    \A k \in DOMAIN output_data :
        LET nj == output_data[k]
        IN /\ NonEmpty(nj.apply_url) <=> NonEmpty(nj.job_id)
           /\ NonEmpty(nj.apply_url) =>
                  nj.apply_url = StrV(ApplyUrlHead \o StrOf(nj.job_id) \o ApplyUrlTail)

\* job_id as C10 states it
StatedJobId(job) ==
    LET url == JobUrl(job)
    IN IF NonEmpty(Get(job, "id")) THEN Get(job, "id")
       ELSE IF NonEmpty(Get(job, "ciphertext")) THEN Get(job, "ciphertext")
       ELSE IF url.t = "str" /\ Contains(url.s, <<"~">>)
       THEN StrV(<<"~">> \o AfterLast(url.s, "~"))
       ELSE StrV(<<>>)

\* C10: job_id is the direct identifier if available, else "~" and what
\* follows the last "~" of the url, else the empty string.
C10_JobIdDerivation ==
    pc \in {"transformed", "saved"} =>
        \A k \in DOMAIN output_data : output_data[k].job_id = StatedJobId(filtered[k])

(***************************************************************************)
(* scrape_jobs, request by request.                                        *)
(*   scrape.phase     "init", "start" (starting the run), "poll" (polling  *)
(*                    the run status), "dataset" (retrieving the items),   *)
(*                    "returned" or "raised"                               *)
(*   scrape.attempt   the loop variable of the phase's for loop            *)
(*   scrape.start_failures, poll_errors, dataset_failures                  *)
(*                    provider requests of the phase that ended in an      *)
(*                    exception                                            *)
(*   scrape.polls     status requests answered with a non-terminal status  *)
(* An exception that leaves scrape_jobs is caught by main, which prints    *)
(* it and calls sys.exit(1). The prints of scrape_jobs can raise like any  *)
(* other statement: inside its try such an exception reaches the handlers  *)
(* a failed request reaches.                                               *)
(***************************************************************************)
max_retries == 3

TerminalStatuses == {"SUCCEEDED", "FAILED", "ABORTED", "TIMED-OUT"}

\* the statuses the provider answers in the model; "RUNNING" stands for
\* every status outside TerminalStatuses
RunStatuses == TerminalStatuses \cup {"RUNNING"}

\* how many non-terminal answers and how many failed status requests the
\* model follows; the loop itself has no limit
MaxPolls == 2
MaxPollErrors == 4

\* scrape_jobs raises and main's handler ends the process, by sys.exit(1) or
\* by the exception of its own print
ScrapeRaise(s) ==
    /\ scrape' = [s EXCEPT !.phase = "raised"]
    /\ pc' = "exited"
    /\ exit_code' \in ExitStatus(1)
    /\ UNCHANGED raw_jobs

\* scrape_jobs goes on
ScrapeGoOn(s) ==
    /\ scrape' = s
    /\ UNCHANGED <<pc, exit_code, raw_jobs>>

\* main's first print, which nothing guards, then the start of scrape_jobs:
\* if not APIFY_API_TOKEN: raise ValueError, and the print of the run input,
\* which is outside the try of scrape_jobs
CheckToken ==
    /\ pc = "start"
    /\ scrape.phase = "init"
    /\ \E announced, token, printed \in BOOLEAN :
          IF ~announced
          THEN /\ PrintFails
               /\ UNCHANGED <<scrape, raw_jobs>>
          ELSE IF token /\ printed
          THEN ScrapeGoOn([scrape EXCEPT !.phase = "start", !.attempt = 0])
          ELSE ScrapeRaise(scrape)
    /\ UNCHANGED <<cfg, dataset, filtered, output_data, file, outreach_vars>>

\* one requests.post of the start loop: success breaks out of the loop (and
\* the run id is printed), an HTTPError is printed, logged to
\* .tmp/error.log, printed again and retried until the last attempt, any
\* other exception is not caught by the loop, and neither is the exception
\* of a print (of the first print of the handler, which comes before the
\* log is written, or of the second, which comes after)
StartRun ==
    /\ pc = "start"
    /\ scrape.phase = "start"
    /\ \E outcome \in {"ok", "http_error", "other_error"}, printed \in BOOLEAN :
          LET failed == [scrape EXCEPT !.start_failures = @ + 1]
          IN CASE outcome = "ok" ->
                    /\ IF printed
                       THEN ScrapeGoOn([scrape EXCEPT !.phase = "poll"])
                       ELSE ScrapeRaise(scrape)
                    /\ UNCHANGED file
               [] outcome = "http_error" ->
                    /\ IF scrape.attempt = max_retries - 1 \/ ~printed
                       THEN ScrapeRaise(failed)
                       ELSE ScrapeGoOn([failed EXCEPT !.attempt = @ + 1])
                    /\ file' \in {file, ErrorLogged}
               [] outcome = "other_error" ->
                    /\ ScrapeRaise(failed)
                    /\ UNCHANGED file
    /\ UNCHANGED <<cfg, dataset, filtered, output_data, outreach_vars>>

\* one turn of the while True loop: a terminal status breaks out of it (and
\* anything but SUCCEEDED raises), a non-terminal status sleeps and polls
\* again, an exception (of the request or of the print of the status) is
\* printed, sleeps and polls again; when that print of the handler raises,
\* the exception leaves the loop
PollRun ==
    /\ pc = "start"
    /\ scrape.phase = "poll"
    /\ \/ \E status \in RunStatuses :
             CASE status = "SUCCEEDED" ->
                    ScrapeGoOn([scrape EXCEPT !.phase = "dataset", !.attempt = 0])
               [] status \in TerminalStatuses \ {"SUCCEEDED"} ->
                    ScrapeRaise(scrape)
               [] OTHER ->
                    /\ scrape.polls < MaxPolls
                    /\ ScrapeGoOn([scrape EXCEPT !.polls = @ + 1])
       \/ /\ scrape.poll_errors < MaxPollErrors
          /\ \E printed \in BOOLEAN :
                IF printed
                THEN ScrapeGoOn([scrape EXCEPT !.poll_errors = @ + 1])
                ELSE ScrapeRaise([scrape EXCEPT !.poll_errors = @ + 1])
    /\ UNCHANGED <<cfg, dataset, filtered, output_data, file, outreach_vars>>

\* one requests.get of the dataset loop: success returns the items, any
\* exception is printed and retried until the last attempt; when that print
\* raises, the exception leaves the loop
FetchDataset ==
    /\ pc = "start"
    /\ scrape.phase = "dataset"
    /\ \E ok, printed \in BOOLEAN :
          LET failed == [scrape EXCEPT !.dataset_failures = @ + 1]
          IN IF ok
             THEN /\ scrape' = [scrape EXCEPT !.phase = "returned"]
                  /\ raw_jobs' = dataset
                  /\ pc' = "fetched"
                  /\ UNCHANGED exit_code
             ELSE IF scrape.attempt = max_retries - 1 \/ ~printed
                  THEN ScrapeRaise(failed)
                  ELSE ScrapeGoOn([failed EXCEPT !.attempt = @ + 1])
    /\ UNCHANGED <<cfg, dataset, filtered, output_data, file, outreach_vars>>

NextIngest ==
    \/ CheckToken
    \/ StartRun
    \/ PollRun
    \/ FetchDataset
    \/ FilterStep
    \/ TransformStep
    \/ SaveStep

\* the records the provider returns in the request-by-request model: one
\* that is admitted, one that is rejected, one that is malformed
IngestJobs == {JobExpert, JobCrowded, JobNullClient}

InitIngest == InitWith(IngestJobs)

SpecIngest == InitIngest /\ [][NextIngest]_vars

\* how the call of scrape_jobs ended
FetchFailed == scrape.phase = "raised"
FetchReturned == scrape.phase = "returned"

\* a failed fetch ends main with exit status 1 and the output file untouched
FailedFetchExits == FetchFailed => pc = "exited" /\ exit_code = 1 /\ ~file.written

\* C11: in every run of the ingestion main, a failed fetch (start attempts
\* exhausted, a terminal status other than SUCCEEDED, dataset attempts
\* exhausted) exits with status 1 and never writes the output file, and a
\* fetch that returned a list ends with the output file written and exit
\* status 0, the empty list and the list with no admitted job included.
C11_FetchDecidesOutcome ==
    /\ FailedFetchExits
    /\ (FetchReturned /\ MainEnded) => file.written /\ exit_code = 0

\* C12: in each of the three phases of scrape_jobs (starting the run, polling
\* the run status, retrieving the dataset) failed provider requests are
\* retried only within the retry budget: no phase ever sees more than
\* max_retries failed requests, so a call ends after a bounded number of
\* them.
C12_RetriesWithinBudget ==
    /\ scrape.start_failures <= max_retries
    /\ scrape.poll_errors <= max_retries
    /\ scrape.dataset_failures <= max_retries

(***************************************************************************)
(* main of the outreach script and its worker pool.                        *)
(*   opc           where main is: "off" (not running), "submit" (building  *)
(*                 the futures dict), "collect" (the for loop over the     *)
(*                 futures), "done" (past the with block), or, after       *)
(*                 future.result() raised, "aborting" (the exit of the     *)
(*                 with block waits for the pool) and "crashed" (main      *)
(*                 ended on the exception)                                 *)
(*   input_jobs    the list loaded from the input file; a job is a record  *)
(*                 with its job_id and whether its title is a string       *)
(*   max_workers   args.workers                                            *)
(*   tasks         one entry per submitted future, in submission order:    *)
(*                 state    "queued", "begin", "wait_lock", "in_doc",      *)
(*                          "row" (past the with block of                  *)
(*                          create_google_doc), "done"                     *)
(*                 attempt  the loop variable inside create_google_doc     *)
(*                 doc_url  "FALLBACK_TEXT_ONLY", "url", "None", or        *)
(*                          "absent" in a failed result                    *)
(*                 status   "none" until process_job ends, then           *)
(*                          "success" or "failed" as in the dict it        *)
(*                          returned, or "raised" when it raised           *)
(*                 finished 0 until process_job ends, then the rank of     *)
(*                          the task in the order of completion            *)
(*   doc_creation_lock   the counter of the semaphore                      *)
(*   results       the list main appends to                                *)
(* Every print writes to stdout, which the caller of the script provides:  *)
(* whether a print succeeds is the environment's choice.                   *)
(***************************************************************************)
ingest_vars == <<pc, cfg, dataset, raw_jobs, filtered, output_data, file, exit_code, scrape>>

\* the ingestion script is not running
IngestIdle ==
    /\ pc = "off"
    /\ cfg = [verified_payment |-> FALSE, min_spent |-> 0, experience_levels |-> <<>>]
    /\ dataset = <<>>
    /\ raw_jobs = <<>>
    /\ filtered = <<>>
    /\ output_data = <<>>
    /\ file = [written |-> FALSE, content |-> <<>>, cut |-> FALSE]
    /\ exit_code = -1
    /\ scrape = ScrapeIdle

\* the attempts of the loop inside create_google_doc
DocAttempts == 4

\* the length of the input list and the pool sizes the model follows
MaxInputJobs == 2
MaxWorkers == 2

\* a job's title is a string, or None (transform_job copies a missing title
\* as None)
TitleKinds == {"str", "none"}

InputJobLists ==
    UNION {{[i \in 1..n |-> [job_id |-> i, title |-> t[i]]] : t \in [1..n -> TitleKinds]} :
           n \in 0..MaxInputJobs}

InitOutreach ==
    /\ IngestIdle
    /\ opc = "submit"
    /\ input_jobs \in InputJobLists
    /\ max_workers \in 1..MaxWorkers
    /\ tasks = <<>>
    /\ doc_creation_lock = 1
    /\ results = <<>>

\* executor.submit: a future whose process_job has not started
NewTask ==
    [state |-> "queued", attempt |-> 0, doc_url |-> "FALLBACK_TEXT_ONLY",
     status |-> "none", finished |-> 0]

TasksIn(states) == {i \in 1..Len(tasks) : tasks[i].state \in states}

\* the tasks a worker thread is running
Running == TasksIn({"begin", "wait_lock", "in_doc", "row"})

\* process_job ends and the future of task i is done: it holds the result
\* dict process_job returned, or the exception it raised (status "raised")
Return(i, status, url) ==
    tasks' = [tasks EXCEPT ![i] =
                 [state |-> "done", attempt |-> 0, doc_url |-> url, status |-> status,
                  finished |-> Cardinality(TasksIn({"done"})) + 1]]

\* except Exception as e: of process_job: the handler prints the error and
\* returns a failed result; when its print raises, process_job raises
Handler(i) ==
    \E printed \in BOOLEAN :
        IF printed
        THEN Return(i, "failed", "absent")
        ELSE Return(i, "raised", "absent")

\* futures = {executor.submit(process_job, job, ...): job for job in jobs},
\* one submit at a time
Submit ==
    /\ opc = "submit"
    /\ Len(tasks) < Len(input_jobs)
    /\ tasks' = Append(tasks, NewTask)
    /\ UNCHANGED <<opc, input_jobs, max_workers, doc_creation_lock, results, ingest_vars>>

\* the dict is built: main enters the for loop
StartCollect ==
    /\ opc = "submit"
    /\ Len(tasks) = Len(input_jobs)
    /\ opc' = "collect"
    /\ UNCHANGED <<input_jobs, max_workers, tasks, doc_creation_lock, results, ingest_vars>>

\* for future in futures: a dict iterates in insertion order
NextFuture ==
    Len(results) + 1

\* res = future.result(): blocks until the future is done, then returns the
\* dict, which main appends to results, or raises the exception process_job
\* raised, which nothing in main catches
Collect ==
    /\ opc = "collect"
    /\ Len(results) < Len(tasks)
    /\ LET k == NextFuture
       IN /\ k \in TasksIn({"done"})
          /\ IF tasks[k].status = "raised"
             THEN /\ opc' = "aborting"
                  /\ UNCHANGED results
             ELSE /\ results' = Append(results, [job_id |-> input_jobs[k].job_id,
                                                 status |-> tasks[k].status,
                                                 doc_url |-> tasks[k].doc_url])
                  /\ UNCHANGED opc
    /\ UNCHANGED <<input_jobs, max_workers, tasks, doc_creation_lock, ingest_vars>>

\* the for loop and the with block end
Finish ==
    /\ opc = "collect"
    /\ Len(results) = Len(tasks)
    /\ opc' = "done"
    /\ UNCHANGED <<input_jobs, max_workers, tasks, doc_creation_lock, results, ingest_vars>>

\* the exception leaves the with block: the exit of ThreadPoolExecutor waits
\* until every submitted task has run to its end, then main ends on the
\* exception, before it writes the results
Abort ==
    /\ opc = "aborting"
    /\ TasksIn({"done"}) = 1..Len(tasks)
    /\ opc' = "crashed"
    /\ UNCHANGED <<input_jobs, max_workers, tasks, doc_creation_lock, results, ingest_vars>>

\* a free worker thread takes the oldest queued work item
StartTask(i) ==
    /\ i \in TasksIn({"queued"})
    /\ \A k \in 1..(i - 1) : tasks[k].state # "queued"
    /\ Cardinality(Running) < max_workers
    /\ tasks' = [tasks EXCEPT ![i].state = "begin"]
    /\ UNCHANGED <<opc, input_jobs, max_workers, doc_creation_lock, results, ingest_vars>>

\* process_job up to the call of create_google_doc: job.get('title')[:30]
\* raises on a None title, the print of the title can raise, load_bio raises
\* when config/bio.txt exists but cannot be opened or decoded (a directory,
\* no read permission, bytes that are not UTF-8), and call_llm, which
\* catches every Exception of the request, raises when the print of its
\* handler does. Each of these reaches the handler of process_job before
\* the semaphore is touched.
Begin(i) ==
    /\ i \in TasksIn({"begin"})
    /\ IF input_jobs[i].title = "none"
       THEN Handler(i)
       ELSE \E bio_loaded \in BOOLEAN :
                IF bio_loaded
                THEN tasks' = [tasks EXCEPT ![i].state = "wait_lock"]
                ELSE Handler(i)
    /\ UNCHANGED <<opc, input_jobs, max_workers, doc_creation_lock, results, ingest_vars>>

\* the semaphore lets a thread in whatever its counter
CanAcquire_Always ==
    TRUE

\* the semaphore lets a thread in only while its counter is positive
CanAcquire ==
    doc_creation_lock > 0

\* with doc_creation_lock: (entry)
Acquire(i) ==
    /\ i \in TasksIn({"wait_lock"})
    /\ CanAcquire
    /\ doc_creation_lock' = doc_creation_lock - 1
    /\ tasks' = [tasks EXCEPT ![i].state = "in_doc", ![i].attempt = 0]
    /\ UNCHANGED <<opc, input_jobs, max_workers, results, ingest_vars>>

\* one attempt of the loop inside the with block: create plus batchUpdate
\* succeed and the loop breaks, or HttpError is caught and printed, the
\* thread sleeps and the loop goes on (ending after the last attempt with
\* doc_url None), or another exception (the print of that handler raising
\* included) leaves the with block, to be caught by the inner handler of
\* process_job with doc_url still the fallback. Leaving the with block
\* releases the semaphore, and that is where the step ends: what the thread
\* does next, the inner handler included, is FinishJob.
DocAttempt(i) ==
    /\ i \in TasksIn({"in_doc"})
    /\ \E outcome \in {"ok", "http_error", "other_error"} :
          CASE outcome = "ok" ->
                 /\ tasks' = [tasks EXCEPT ![i].state = "row", ![i].attempt = 0,
                                           ![i].doc_url = "url"]
                 /\ doc_creation_lock' = doc_creation_lock + 1
            [] outcome = "http_error" ->
                 IF tasks[i].attempt + 1 = DocAttempts
                 THEN /\ tasks' = [tasks EXCEPT ![i].state = "row", ![i].attempt = 0,
                                                ![i].doc_url = "None"]
                      /\ doc_creation_lock' = doc_creation_lock + 1
                 ELSE /\ tasks' = [tasks EXCEPT ![i].attempt = @ + 1]
                      /\ UNCHANGED doc_creation_lock
            [] outcome = "other_error" ->
                 /\ tasks' = [tasks EXCEPT ![i].state = "row", ![i].attempt = 0]
                 /\ doc_creation_lock' = doc_creation_lock + 1
    /\ UNCHANGED <<opc, input_jobs, max_workers, results, ingest_vars>>

\* the rest of process_job, from the return of create_google_doc or the
\* inner handler of its exception on: the inner handler prints, the row is
\* built and update_sheet is called; an exception of the inner handler's
\* print, or one of update_sheet other than a printed HttpError, reaches the
\* handler of process_job
FinishJob(i) ==
    /\ i \in TasksIn({"row"})
    /\ \E ok \in BOOLEAN :
          IF ok
          THEN Return(i, "success", tasks[i].doc_url)
          ELSE Handler(i)
    /\ UNCHANGED <<opc, input_jobs, max_workers, doc_creation_lock, results, ingest_vars>>

\* the steps of the worker thread that runs task i
TaskStep(i) ==
    \/ StartTask(i)
    \/ Begin(i)
    \/ Acquire(i)
    \/ DocAttempt(i)
    \/ FinishJob(i)

\* the steps of the main thread
MainStep ==
    \/ Submit
    \/ StartCollect
    \/ Collect
    \/ Finish
    \/ Abort

NextOutreach ==
    \/ MainStep
    \/ \E i \in 1..MaxInputJobs : TaskStep(i)

\* every thread that can take a step eventually takes one
SpecOutreach ==
    /\ InitOutreach
    /\ [][NextOutreach]_vars
    /\ WF_vars(MainStep)
    /\ \A i \in 1..MaxInputJobs : WF_vars(TaskStep(i))

\* the workers inside the document-creation section of create_google_doc,
\* and whether worker i waits at its gate or is inside
InsideDocSection == TasksIn({"in_doc"})
WaitsForGate(i) == i \in TasksIn({"wait_lock"})
InsideGate(i) == i \in InsideDocSection

\* at most one worker is inside, and the gate's counter is 1 exactly when
\* nobody is: every way out of the section has given the gate back
GateSerializes ==
    /\ Cardinality(InsideDocSection) <= 1
    /\ doc_creation_lock = 1 - Cardinality(InsideDocSection)

\* C13: for any number of workers and any interleaving, at most one worker at
\* a time is inside the document-creation section of create_google_doc (its
\* retries and backoff waits included), the gate is released on every exit
\* path, and every worker that waits for the gate eventually enters.
C13_GateSerializesAndAdmits ==
    /\ []GateSerializes
    /\ \A i \in 1..MaxInputJobs : WaitsForGate(i) ~> InsideGate(i)

\* one worker is inside on a retry while another waits at the gate
C13_Witness ==
    \E i, k \in 1..Len(tasks) :
        /\ tasks[i].state = "in_doc"
        /\ tasks[i].attempt >= 1
        /\ tasks[k].state = "wait_lock"

\* the results collected so far are those of the first jobs of the input
\* list, one each and in the order of the list, each marked success or
\* failed as its own process_job ended
ResultsFollowInput ==
    /\ Len(results) <= Len(input_jobs)
    /\ \A k \in 1..Len(results) :
          /\ results[k].job_id = input_jobs[k].job_id
          /\ results[k].status \in {"success", "failed"}
          /\ results[k].status = tasks[k].status

\* main has left the with block of the pool, and it has left it with a
\* result for every input job
PoolLeft == opc \in {"done", "crashed"}
AllCollected == opc = "done" /\ Len(results) = Len(input_jobs)

\* C14: for any number of workers and any completion order of the per-job
\* tasks, main collects exactly one result per input job (success or
\* failed), in the order of the jobs in the input file; a job that fails
\* gets a failed result and the other jobs still get theirs: main always
\* leaves the pool, and with all results collected.
C14_OneResultPerJobInInputOrder ==
    /\ [](ResultsFollowInput /\ (PoolLeft => AllCollected))
    /\ <>AllCollected

====
